---------------------------- MODULE Spec2Model ----------------------------
(* A model of the eBay credential/token lifecycle manager:                 *)
(*   server/routes.ts   the three request handlers (authenticate, status,  *)
(*                      validate) and the in-memory credential store       *)
(*   shared schema      the request schema and the token response shape    *)
(* JavaScript values are encoded as follows.  A string-typed field is a    *)
(* TLA+ string, with Null and Undefined as reserved values.  The numeric   *)
(* or textual expires_in of a token response is a tagged record, and the   *)
(* text of the stored expiresIn is a sequence of one-character strings, so *)
(* that Number.toString and parseInt are computed, not assumed.  A Date is *)
(* its millisecond value; NullTime is the null Date.                       *)
EXTENDS Integers, Sequences, FiniteSets, Bags, TLC

(***************************************************************************)
(* Bounds of the model.                                                    *)
(***************************************************************************)
\* the lifetime, in seconds, of the short-lived tokens the issuer gives
Ttl == 12
\* the number of authenticate requests that may be stored or under way:
\* the records of the store and the handlers awaiting the issuer
MaxRecords == 2

\* milliseconds per second, the factor of routes.ts line 99
MsPerSecond == 1000

Null == "<null>"
Undefined == "<undefined>"
NullTime == -1

\* the instants at which the clock is read: the start, and the last
\* millisecond before and the first millisecond at which a short-lived
\* token issued at the start has lived its lifetime
ClockPoints == {0, Ttl * MsPerSecond - 1, Ttl * MsPerSecond}

(***************************************************************************)
(* JavaScript helpers.                                                     *)
(***************************************************************************)
\* truthiness of a string-typed value
Truthy(s) == s \notin {Null, Undefined, ""}

\* x || null, for a string-typed value
OrNull(s) == IF Truthy(s) THEN s ELSE Null

Digits == <<"0", "1", "2", "3", "4", "5", "6", "7", "8", "9">>

IsDigit(c) == \E d \in 1..10 : Digits[d] = c

DigitValue(c) == (CHOOSE d \in 1..10 : Digits[d] = c) - 1

RECURSIVE NatToString(_)
NatToString(n) ==
    IF n < 10 THEN <<Digits[n + 1]>>
    ELSE NatToString(n \div 10) \o <<Digits[(n % 10) + 1]>>

\* Number.prototype.toString for an integer
IntToString(n) == IF n < 0 THEN <<"-">> \o NatToString(0 - n) ELSE NatToString(n)

\* the values an expires_in member of a JSON body may have
NumV(n) == [t |-> "num", n |-> n, s |-> <<>>]
StrV(s) == [t |-> "str", n |-> 0, s |-> s]
UndefV == [t |-> "undefined", n |-> 0, s |-> <<>>]
NullV == [t |-> "null", n |-> 0, s |-> <<>>]

\* v.toString() of routes.ts line 55; it throws on undefined and null
ToStringThrows(v) == v.t \in {"undefined", "null"}

NumberToString(v) == IF v.t = "num" THEN IntToString(v.n) ELSE v.s

\* the longest prefix of s made of digits
RECURSIVE DigitPrefix(_)
DigitPrefix(s) ==
    IF s = <<>> \/ ~IsDigit(Head(s)) THEN <<>>
    ELSE <<Head(s)>> \o DigitPrefix(Tail(s))

RECURSIVE DigitsValue(_, _)
DigitsValue(s, acc) ==
    IF s = <<>> THEN acc ELSE DigitsValue(Tail(s), acc * 10 + DigitValue(Head(s)))

RECURSIVE SkipSpaces(_)
SkipSpaces(s) == IF s # <<>> /\ Head(s) = " " THEN SkipSpaces(Tail(s)) ELSE s

NaN == [nan |-> TRUE, n |-> 0]

\* parseInt(s): leading blanks, an optional sign, then the decimal digits
\* up to the first other character; NaN when there is no digit
ParseInt(s) ==
    LET u == SkipSpaces(s)
        neg == u # <<>> /\ Head(u) = "-"
        body == IF u # <<>> /\ Head(u) \in {"-", "+"} THEN Tail(u) ELSE u
        ds == DigitPrefix(body)
    IN IF ds = <<>> THEN NaN
       ELSE [nan |-> FALSE,
             n |-> IF neg THEN 0 - DigitsValue(ds, 0) ELSE DigitsValue(ds, 0)]

\* a > b in the place of a >= b
GreaterOnly(a, b) == ~b.nan /\ a > b.n

\* a >= b of JavaScript numbers, b possibly NaN
GreaterOrEqual(a, b) == ~b.nan /\ a >= b.n

\* response.ok of fetch
ResponseOk(status) == status >= 200 /\ status <= 299

(***************************************************************************)
(* shared schema: the request schema and the inputs of the model.          *)
(***************************************************************************)
\* ebayAuthRequestSchema.parse accepts the body
SchemaAccepts(body) ==
    /\ body.clientId \notin {Undefined, Null, ""}
    /\ body.clientSecret \notin {Undefined, Null, ""}
    /\ body.environment \in {"sandbox", "production", Undefined}

\* the fields at fault, as the ZodError lists them
SchemaErrors(body) ==
    {f \in {"clientId", "clientSecret", "environment"} :
        \/ f = "clientId" /\ body.clientId \in {Undefined, Null, ""}
        \/ f = "clientSecret" /\ body.clientSecret \in {Undefined, Null, ""}
        \/ f = "environment" /\ body.environment \notin {"sandbox", "production", Undefined}}

\* the parsed value: environment defaults to sandbox
SchemaParse(body) ==
    [clientId |-> body.clientId,
     clientSecret |-> body.clientSecret,
     environment |-> IF body.environment = Undefined THEN "sandbox" ELSE body.environment]

\* the request bodies a client submits to authenticate
AuthBodies ==
    { [clientId |-> "abc", clientSecret |-> "xyz", environment |-> Undefined],
      [clientId |-> "abc", clientSecret |-> "xyz", environment |-> "production"],
      [clientId |-> "", clientSecret |-> "xyz", environment |-> "sandbox"],
      [clientId |-> "abc", clientSecret |-> "xyz", environment |-> "staging"] }

\* a JSON body of the token issuer, as response.json() yields it
TokenBody(token, expires) ==
    [parsed |-> TRUE, access_token |-> token, token_type |-> "Bearer",
     expires_in |-> expires, scope |-> "s1"]

\* a body that is no JSON: response.json() rejects
NotJson ==
    [parsed |-> FALSE, access_token |-> Undefined, token_type |-> Undefined,
     expires_in |-> UndefV, scope |-> Undefined]

TokenBodies ==
    { TokenBody("T1", NumV(Ttl)),
      TokenBody("T2", NumV(7200)),
      TokenBody("T2", NumV(-1)),
      TokenBody("T1", StrV(<<"s", "o", "o", "n">>)),
      TokenBody("T1", StrV(<<>>)),
      TokenBody("T1", UndefV),
      TokenBody(Undefined, NumV(Ttl)),
      TokenBody("", NumV(Ttl)),
      NotJson }

\* what the awaited fetch of the token endpoint comes to: a rejection
\* (transport failure) or an HTTP response; readable is whether the body
\* can be read to its end
Transport == [t |-> "transport", status |-> 0, statusText |-> "", readable |-> FALSE, json |-> NotJson]

Http(status, text, readable, json) ==
    [t |-> "http", status |-> status, statusText |-> text, readable |-> readable, json |-> json]

IssuerOutcomes ==
    {Transport}
    \cup {Http(401, "Unauthorized", r, NotJson) : r \in BOOLEAN}
    \cup {Http(503, "Service Unavailable", TRUE, NotJson)}
    \cup {Http(200, "OK", TRUE, b) : b \in TokenBodies}

ProbeOutcomes ==
    {Transport, Http(200, "OK", TRUE, NotJson), Http(204, "No Content", TRUE, NotJson),
     Http(401, "Unauthorized", TRUE, NotJson)}

(***************************************************************************)
(* MemStorage: a Map from id to record, kept here in insertion order.      *)
(***************************************************************************)
\* a store of one entry, which every set overwrites
MapSetSingle(m, id, rec) == IF m = <<>> THEN <<rec>> ELSE [m EXCEPT ![1] = rec]

\* Map.prototype.set: replace the value of an existing key in place, or
\* append a new entry
MapSet(m, id, rec) ==
    IF \E i \in 1..Len(m) : m[i].id = id
    THEN [i \in 1..Len(m) |-> IF m[i].id = id THEN rec ELSE m[i]]
    ELSE Append(m, rec)

\* a record stamped with tokenCreatedAt whether or not it has a token
NewCredentialsStamped(data, id, t1, t2) ==
    [id |-> id,
     clientId |-> data.clientId,
     clientSecret |-> data.clientSecret,
     environment |-> data.environment,
     accessToken |-> OrNull(data.accessToken),
     tokenType |-> OrNull(data.tokenType),
     expiresIn |-> IF data.expiresIn # <<>> THEN StrV(data.expiresIn) ELSE NullV,
     scope |-> OrNull(data.scope),
     tokenCreatedAt |-> t1,
     createdAt |-> t2]

\* the record createOrUpdateCredentials builds: t1 and t2 are the two
\* readings of the clock, for tokenCreatedAt and for createdAt
NewCredentials(data, id, t1, t2) ==
    [id |-> id,
     clientId |-> data.clientId,
     clientSecret |-> data.clientSecret,
     environment |-> data.environment,
     accessToken |-> OrNull(data.accessToken),
     tokenType |-> OrNull(data.tokenType),
     expiresIn |-> IF data.expiresIn # <<>> THEN StrV(data.expiresIn) ELSE NullV,
     scope |-> OrNull(data.scope),
     tokenCreatedAt |-> IF Truthy(data.accessToken) THEN t1 ELSE NullTime,
     createdAt |-> t2]

\* an update of the record of the same clientId, when there is one
createOrUpdateByClientId(m, data, id, t1, t2) ==
    IF \E i \in 1..Len(m) : m[i].clientId = data.clientId
    THEN LET k == CHOOSE i \in 1..Len(m) : m[i].clientId = data.clientId
         IN MapSet(m, m[k].id, NewCredentials(data, m[k].id, t1, t2))
    ELSE MapSet(m, id, NewCredentials(data, id, t1, t2))

createOrUpdateCredentials(m, data, id, t1, t2) ==
    MapSet(m, id, NewCredentials(data, id, t1, t2))

\* the comparator of an ascending sort
CompareAscending(a, b) == a.createdAt - b.createdAt

\* the comparator of getLatestCredentials: b.createdAt - a.createdAt
CompareCreatedAt(a, b) == b.createdAt - a.createdAt

\* a sort that puts x before the elements it ties with
RECURSIVE InsertBeforeTies(_, _)
InsertBeforeTies(sorted, x) ==
    IF sorted = <<>> THEN <<x>>
    ELSE IF CompareCreatedAt(Head(sorted), x) >= 0
         THEN <<x>> \o sorted
         ELSE <<Head(sorted)>> \o InsertBeforeTies(Tail(sorted), x)

\* Array.prototype.sort, stable: insert x after every element that does
\* not sort after it
RECURSIVE InsertSorted(_, _)
InsertSorted(sorted, x) ==
    IF sorted = <<>> THEN <<x>>
    ELSE IF CompareCreatedAt(Head(sorted), x) > 0
         THEN <<x>> \o sorted
         ELSE <<Head(sorted)>> \o InsertSorted(Tail(sorted), x)

RECURSIVE SortByCreatedAt(_)
SortByCreatedAt(a) ==
    IF a = <<>> THEN <<>>
    ELSE InsertSorted(SortByCreatedAt(SubSeq(a, 1, Len(a) - 1)), a[Len(a)])

\* the absent result of getLatestCredentials
NoCredentials ==
    [id |-> 0, clientId |-> Undefined, clientSecret |-> Undefined,
     environment |-> Undefined, accessToken |-> Undefined, tokenType |-> Undefined,
     expiresIn |-> UndefV, scope |-> Undefined, tokenCreatedAt |-> NullTime,
     createdAt |-> NullTime]

getLatestCredentials(m) ==
    IF Len(m) = 0 THEN NoCredentials ELSE SortByCreatedAt(m)[1]

(***************************************************************************)
(* The responses of the three endpoints.                                   *)
(***************************************************************************)
NoSummary ==
    [present |-> FALSE, id |-> 0, environment |-> Undefined, hasToken |-> FALSE,
     isExpired |-> FALSE, tokenCreatedAt |-> NullTime, expiresIn |-> UndefV,
     scope |-> Undefined, tokenType |-> Undefined]

TokenAbsent ==
    [t |-> "absent", access_token |-> Undefined, token_type |-> Undefined,
     expires_in |-> UndefV, scope |-> Undefined]

TokenNull ==
    [t |-> "null", access_token |-> Undefined, token_type |-> Undefined,
     expires_in |-> UndefV, scope |-> Undefined]

\* a JSON response: its HTTP status and the members of its body; a member
\* the body does not have is Undefined, "absent" or not present
Response(endpoint, status, message) ==
    [endpoint |-> endpoint, status |-> status, message |-> message,
     errors |-> {}, success |-> Undefined, connected |-> Undefined,
     valid |-> Undefined, upstream |-> 0,
     saved |-> NoCredentials, credentials |-> NoSummary, token |-> TokenAbsent]

\* the endpoints of the two environments
TokenUrl(environment) ==
    IF environment = "production"
    THEN "https://api.ebay.com/identity/v1/oauth2/token"
    ELSE "https://api.sandbox.ebay.com/identity/v1/oauth2/token"

ProbeUrl(environment) ==
    IF environment = "production"
    THEN "https://api.ebay.com/commerce/catalog/v1_beta/products"
    ELSE "https://api.sandbox.ebay.com/commerce/catalog/v1_beta/products"

(***************************************************************************)
(* POST /api/ebay/authenticate                                             *)
(***************************************************************************)
\* a catch block that answers every error alike
AuthenticateCatchAll(isZodError, body) ==
    Response("authenticate", 500, "Internal server error during authentication")

\* the catch block of the handler
AuthenticateCatch(isZodError, body) ==
    IF isZodError
    THEN [Response("authenticate", 400, "Invalid request data")
            EXCEPT !.errors = SchemaErrors(body)]
    ELSE Response("authenticate", 500, "Internal server error during authentication")

\* the text response.text() yields for an answer of the issuer that is
\* not ok, or whose body is no JSON; the handler only logs it
ErrorText(outcome) ==
    IF outcome.t # "http" THEN ""
    ELSE IF outcome.status = 401 THEN "invalid_client: client authentication failed"
    ELSE IF ~ResponseOk(outcome.status) THEN "upstream connect error"
    ELSE IF ~outcome.json.parsed THEN "<html>busy</html>"
    ELSE ""

\* a branch that passes the text of the issuer on
AuthenticateNotOkRaw(outcome) ==
    <<Response("authenticate", outcome.status, "eBay API Error: " \o ErrorText(outcome))>>

\* the branch of a response that is not ok
AuthenticateNotOk(outcome) ==
    IF outcome.status = 401
    THEN <<Response("authenticate", 401,
             "Invalid client credentials. Please verify your Client ID and Client Secret.")>>
    ELSE <<Response("authenticate", outcome.status, "eBay API Error: " \o outcome.statusText)>>

\* the token data of a JSON body, as the success response carries it
TokenOf(json) ==
    [t |-> "object", access_token |-> json.access_token, token_type |-> json.token_type,
     expires_in |-> json.expires_in, scope |-> json.scope]

\* the argument the handler passes to createOrUpdateCredentials
CredentialsData(req, json) ==
    [clientId |-> req.clientId,
     clientSecret |-> req.clientSecret,
     environment |-> req.environment,
     accessToken |-> json.access_token,
     tokenType |-> json.token_type,
     expiresIn |-> NumberToString(json.expires_in),
     scope |-> json.scope]

\* the handler from the moment the awaited fetch settles: the store it
\* leaves and the responses it sends.  id is the identifier randomUUID
\* gives, t1 and t2 the two readings of the clock in the store.
AuthenticateSettle(m, req, outcome, id, t1, t2) ==
    IF outcome.t = "transport"
    THEN [store |-> m, responses |-> <<AuthenticateCatch(FALSE, req)>>]
    ELSE IF ~ResponseOk(outcome.status)
    THEN IF ~outcome.readable
         THEN [store |-> m, responses |-> <<AuthenticateCatch(FALSE, req)>>]
         ELSE [store |-> m, responses |-> AuthenticateNotOk(outcome)]
    ELSE IF ~outcome.readable \/ ~outcome.json.parsed
            \/ ToStringThrows(outcome.json.expires_in)
    THEN [store |-> m, responses |-> <<AuthenticateCatch(FALSE, req)>>]
    ELSE LET after == createOrUpdateCredentials(m, CredentialsData(req, outcome.json), id, t1, t2)
             saved == NewCredentials(CredentialsData(req, outcome.json), id, t1, t2)
         IN [store |-> after,
             responses |-> <<[Response("authenticate", 200, Undefined)
                               EXCEPT !.success = "true",
                                      !.saved = saved,
                                      !.token = TokenOf(outcome.json)]>>]

\* the fetch calls the handler issues on its way to its await: the one
\* of line 22 when the schema accepts the body, none when parse throws
ExchangeCalls(body) == IF SchemaAccepts(body) THEN 1 ELSE 0

\* a handler that fetches again when the issuer did not answer 2xx
SettleCallsRetry(outcome) ==
    IF outcome.t = "transport" \/ ~ResponseOk(outcome.status) THEN 1 ELSE 0

\* the fetch calls the handler issues once its awaited fetch has settled:
\* none, whatever the outcome
SettleCalls(outcome) == 0

\* whether the settled fetch leads the handler to the store
Stores(outcome) ==
    /\ outcome.t = "http"
    /\ ResponseOk(outcome.status)
    /\ outcome.readable
    /\ outcome.json.parsed
    /\ ~ToStringThrows(outcome.json.expires_in)

(***************************************************************************)
(* GET /api/ebay/status                                                    *)
(***************************************************************************)
\* credentials.accessToken && credentials.tokenCreatedAt, as a truth value
HasValidToken(c) == Truthy(c.accessToken) /\ c.tokenCreatedAt # NullTime

\* n * 1000 of a JavaScript number, NaN included
Times(p, k) == IF p.nan THEN NaN ELSE [nan |-> FALSE, n |-> p.n * k]

\* an age of the token counted from the reading of the clock back to it
IsExpiredReversed(c, t) ==
    IF HasValidToken(c) /\ c.expiresIn.t = "str" /\ c.expiresIn.s # <<>>
    THEN GreaterOrEqual(c.tokenCreatedAt - t, Times(ParseInt(c.expiresIn.s), MsPerSecond))
    ELSE FALSE

IsExpired(c, t) ==
    IF HasValidToken(c) /\ c.expiresIn.t = "str" /\ c.expiresIn.s # <<>>
    THEN GreaterOrEqual(t - c.tokenCreatedAt, Times(ParseInt(c.expiresIn.s), MsPerSecond))
    ELSE FALSE

\* hasValidToken && !isExpired, as the JSON it serialises to: the value
\* of the left operand when that is falsy (null), else the boolean
Connected(c, t) ==
    IF ~Truthy(c.accessToken) THEN "null"
    ELSE IF c.tokenCreatedAt = NullTime THEN "null"
    ELSE IF IsExpired(c, t) THEN "false" ELSE "true"

StatusSummary(c, t) ==
    [present |-> TRUE, id |-> c.id, environment |-> c.environment,
     hasToken |-> Truthy(c.accessToken), isExpired |-> IsExpired(c, t),
     tokenCreatedAt |-> c.tokenCreatedAt, expiresIn |-> c.expiresIn,
     scope |-> c.scope, tokenType |-> c.tokenType]

StatusToken(c, t) ==
    IF HasValidToken(c) /\ ~IsExpired(c, t)
    THEN [t |-> "object", access_token |-> c.accessToken, token_type |-> c.tokenType,
          expires_in |-> c.expiresIn, scope |-> c.scope]
    ELSE TokenNull

\* the handler: m is the store, t the reading of the clock
StatusHandler(m, t) ==
    LET c == getLatestCredentials(m)
    IN IF c = NoCredentials
       THEN [Response("status", 200, "No credentials configured") EXCEPT !.connected = "false"]
       ELSE [Response("status", 200, Undefined)
               EXCEPT !.connected = Connected(c, t),
                      !.credentials = StatusSummary(c, t),
                      !.token = StatusToken(c, t)]

(***************************************************************************)
(* POST /api/ebay/validate                                                 *)
(***************************************************************************)
\* a check of the record alone, not of its token
ValidateRejectsAbsent(c) == c = NoCredentials

\* !credentials || !credentials.accessToken
ValidateRejects(c) == c = NoCredentials \/ ~Truthy(c.accessToken)

ValidateNoToken == Response("validate", 400, "No access token available to validate")

\* a handler that answers a failed probe as it answers a rejected token
ValidateSettleFolded(outcome) ==
    IF outcome.t = "transport"
    THEN [Response("validate", 200, "Token validation failed: ")
            EXCEPT !.valid = "false", !.upstream = 0]
    ELSE [Response("validate", 200,
                   IF ResponseOk(outcome.status) THEN "Token is valid"
                   ELSE "Token validation failed: " \o outcome.statusText)
            EXCEPT !.valid = IF ResponseOk(outcome.status) THEN "true" ELSE "false",
                   !.upstream = outcome.status]

\* the handler from the moment the awaited probe settles
ValidateSettle(outcome) ==
    IF outcome.t = "transport"
    THEN Response("validate", 500, "Error validating token")
    ELSE [Response("validate", 200,
                   IF ResponseOk(outcome.status) THEN "Token is valid"
                   ELSE "Token validation failed: " \o outcome.statusText)
            EXCEPT !.valid = IF ResponseOk(outcome.status) THEN "true" ELSE "false",
                   !.upstream = outcome.status]

(***************************************************************************)
(* The state.                                                              *)
(***************************************************************************)
VARIABLES
    store,     \* MemStorage.credentials, in insertion order
    now,       \* the clock, in milliseconds
    nextId,    \* the source of fresh identifiers (randomUUID)
    inflight,  \* the handlers suspended at an awaited outbound call
    last       \* what the last step was: the handler run and its responses

vars == <<store, now, nextId, inflight, last>>

NoBody == [clientId |-> Undefined, clientSecret |-> Undefined, environment |-> Undefined]

\* a handler suspended at its awaited fetch, with what it holds
Call(url, req) ==
    [url |-> url, clientId |-> req.clientId,
     clientSecret |-> req.clientSecret, environment |-> req.environment]

\* the record of a step: handler is the handler that ran, done whether it
\* ran to its end, issued the outbound calls it issued in this step,
\* responses the responses it sent, body and outcome what it was given
Step(handler, done, issued, responses, body, outcome) ==
    [handler |-> handler, done |-> done, issued |-> issued, responses |-> responses,
     body |-> body, outcome |-> outcome]

\* no outbound call settled in the step
NoOutcome == [t |-> "none", status |-> 0, statusText |-> "", readable |-> FALSE, json |-> NotJson]

NoStep == Step("none", FALSE, 0, <<>>, NoBody, NoOutcome)

Init ==
    /\ store = <<>>
    /\ now = 0
    /\ nextId = 1
    /\ inflight = EmptyBag
    /\ last = NoStep

\* time passes: the clock moves on to a later instant, and never back
Tick ==
    /\ \E t \in ClockPoints : t > now /\ now' = t
    /\ last' = NoStep
    /\ UNCHANGED <<store, nextId, inflight>>

\* a client posts body to /api/ebay/authenticate: the handler runs to its
\* 400 response, or to its awaited fetch.  MaxRecords caps the requests
\* that reach the issuer: those stored and those awaiting it.
Authenticate ==
    \E body \in AuthBodies :
        IF ~SchemaAccepts(body)
        THEN /\ last' = Step("authenticate", TRUE, ExchangeCalls(body),
                             <<AuthenticateCatch(TRUE, body)>>,
                             body, NoOutcome)
             /\ UNCHANGED <<store, now, nextId, inflight>>
        ELSE /\ Len(store) + BagCardinality(inflight) < MaxRecords
             /\ LET req == SchemaParse(body)
                IN inflight' = inflight (+)
                       SetToBag({Call(TokenUrl(req.environment), req)})
             /\ last' = Step("authenticate", FALSE, ExchangeCalls(body), <<>>, body, NoOutcome)
             /\ UNCHANGED <<store, now, nextId>>

\* handlers that keep the submitted credentials in a variable they share:
\* the handler that resumes stores those of a request d in flight, its own
\* or another's
AuthenticateReturnShared ==
    \E c \in BagToSet(inflight), d \in BagToSet(inflight),
       outcome \in IssuerOutcomes, t2 \in {now, now + 1} :
        /\ t2 \in ClockPoints
        /\ ~Stores(outcome) => t2 = now
        /\ LET req == [clientId |-> d.clientId, clientSecret |-> d.clientSecret,
                       environment |-> d.environment]
               r == AuthenticateSettle(store, req, outcome, nextId, now, t2)
           IN /\ store' = r.store
              /\ last' = Step("authenticate", TRUE, SettleCalls(outcome), r.responses, req, outcome)
        /\ now' = t2
        /\ nextId' = IF Stores(outcome) THEN nextId + 1 ELSE nextId
        /\ inflight' = inflight (-) SetToBag({c})

\* the fetch of an authenticate handler settles and the handler runs to
\* its end; the clock may move by a millisecond between the two readings
\* of createOrUpdateCredentials
AuthenticateReturn ==
    \E c \in BagToSet(inflight), outcome \in IssuerOutcomes, t2 \in {now, now + 1} :
        /\ t2 \in ClockPoints
        /\ ~Stores(outcome) => t2 = now
        /\ LET req == [clientId |-> c.clientId, clientSecret |-> c.clientSecret,
                       environment |-> c.environment]
               r == AuthenticateSettle(store, req, outcome, nextId, now, t2)
           IN /\ store' = r.store
              /\ last' = Step("authenticate", TRUE, SettleCalls(outcome), r.responses, req, outcome)
        /\ now' = t2
        /\ nextId' = IF Stores(outcome) THEN nextId + 1 ELSE nextId
        /\ inflight' = inflight (-) SetToBag({c})

\* a client gets /api/ebay/status
Status ==
    /\ last' = Step("status", TRUE, 0, <<StatusHandler(store, now)>>, NoBody, NoOutcome)
    /\ UNCHANGED <<store, now, nextId, inflight>>

\* a client posts to /api/ebay/validate: the handler runs to its 400
\* response, or issues its probe and, the probe settled, runs to its end.
\* Nothing the handler does after the awaited probe reads the store or the
\* clock, so the two halves are one step.
Validate ==
    \E outcome \in ProbeOutcomes :
        /\ LET c == getLatestCredentials(store)
           IN IF ValidateRejects(c)
              THEN last' = Step("validate", TRUE, 0, <<ValidateNoToken>>, NoBody, NoOutcome)
              ELSE last' = Step("validate", TRUE, 1, <<ValidateSettle(outcome)>>, NoBody, outcome)
        /\ UNCHANGED <<store, now, nextId, inflight>>

Next ==
    \/ Tick
    \/ Authenticate
    \/ AuthenticateReturn
    \/ Status
    \/ Validate

Spec == Init /\ [][Next]_vars

(***************************************************************************)
(* The properties.                                                         *)
(***************************************************************************)
\* the records of the store
Records == {store[i] : i \in 1..Len(store)}

\* the response of the handler run that ended in the last step
Sent == last.responses[1]

StatusSent == last.handler = "status" /\ last.done

AuthenticateSent == last.handler = "authenticate" /\ last.done

ValidateSent == last.handler = "validate" /\ last.done

\* the last step stored the record of a successful exchange
Exchanged == AuthenticateSent /\ Len(last.responses) = 1 /\ Sent.status = 200

\* C1: every stored record has accessToken and tokenCreatedAt both
\* present or both absent, and the record a successful exchange stores has
\* tokenCreatedAt set exactly when the issuer supplied a non-empty
\* access_token.
C1_TokenAndTimestampTogether ==
    /\ \A r \in Records : (r.accessToken = Null) <=> (r.tokenCreatedAt = NullTime)
    /\ \A r \in Records : r.accessToken \notin {"", Undefined}
    /\ Exchanged =>
          /\ (Sent.saved.tokenCreatedAt # NullTime)
                <=> (last.outcome.json.access_token \notin {"", Undefined, Null})
          /\ Sent.saved.tokenCreatedAt # NullTime =>
                /\ Sent.saved.tokenCreatedAt <= now
                /\ Sent.saved.tokenCreatedAt >= now - 1

\* C1 witness: the store holds a record with a token and one without, the
\* latter just stored from an exchange that supplied no access_token.
C1_Witness ==
    /\ Exchanged
    /\ last.outcome.json.access_token \in {"", Undefined}
    /\ Sent.saved \in Records
    /\ \E r \in Records : r.accessToken # Null /\ r.tokenCreatedAt # NullTime

\* C2: the store changes only in the step that ends an authenticate
\* request whose exchange succeeded (2xx), and then by one appended
\* record; a failed authenticate, a status and a validate leave it as it
\* was; no record is ever removed or modified.
C2_StoreChangesOnlyOnExchange ==
    [][/\ \A i \in 1..Len(store) : i <= Len(store') /\ store'[i] = store[i]
       /\ store' # store =>
             /\ last'.handler = "authenticate" /\ last'.done
             /\ last'.outcome.t = "http" /\ ResponseOk(last'.outcome.status)
             /\ Len(last'.responses) = 1 /\ last'.responses[1].status = 200
             /\ Len(store') = Len(store) + 1
       /\ last'.handler \in {"status", "validate"} => store' = store
       /\ (/\ last'.handler = "authenticate"
           /\ last'.done
           /\ \/ ~SchemaAccepts(last'.body)
              \/ last'.outcome.t = "transport"
              \/ ~ResponseOk(last'.outcome.status)) => store' = store
      ]_vars

\* C2 witness: an authenticate request has just failed on a 401 of the
\* issuer while the store holds a record.
C2_Witness ==
    /\ AuthenticateSent
    /\ last.outcome.t = "http" /\ last.outcome.status = 401
    /\ Len(store) > 0

\* C3: getLatestCredentials returns absent for the empty store, and
\* otherwise a stored record whose createdAt is at least that of every
\* stored record.
C3_LatestHasGreatestCreatedAt ==
    LET c == getLatestCredentials(store)
    IN /\ store = <<>> => c = NoCredentials
       /\ store # <<>> =>
             /\ c \in Records
             /\ \A r \in Records : r.createdAt <= c.createdAt

\* C3 witness: two records created at different instants.
C3_Witness ==
    /\ Len(store) = 2
    /\ store[1].createdAt < store[2].createdAt
    /\ getLatestCredentials(store) = store[2]

\* the record of the authenticate request that completed last: the Map
\* keeps its entries in the order of their insertion
Newest == store[Len(store)]

\* the issuer bodies that carry an access_token and a positive whole
\* number of seconds
GoodBodies ==
    {b \in TokenBodies :
        /\ b.parsed
        /\ b.access_token \notin {"", Undefined}
        /\ b.expires_in.t = "num"
        /\ b.expires_in.n > 0}

\* the record was stored from one of the good bodies
FromGoodBody(r) ==
    \E b \in GoodBodies :
        /\ r.accessToken = b.access_token
        /\ r.expiresIn = StrV(IntToString(b.expires_in.n))

\* C4: after a successful authenticate whose issuer response carries
\* access_token T and a positive expires_in E, a status request made
\* before E seconds have elapsed and before another authenticate completes
\* reports connected true, token.access_token T and expiresIn the decimal
\* string of E, whatever the store held before (here: whatever records of
\* earlier exchanges that carried a token and a positive expires_in).
C4_StatusReportsTheNewToken ==
    (StatusSent /\ store # <<>> /\ \A r \in Records : FromGoodBody(r)) =>
        \A b \in GoodBodies :
            (/\ Newest.accessToken = b.access_token
             /\ Newest.expiresIn = StrV(IntToString(b.expires_in.n))
             /\ now - Newest.tokenCreatedAt < b.expires_in.n * MsPerSecond)
            => /\ Sent.connected = "true"
               /\ Sent.token.t = "object"
               /\ Sent.token.access_token = b.access_token
               /\ Sent.credentials.expiresIn = StrV(IntToString(b.expires_in.n))

C6_ExpiredFromTheBoundaryOn ==
    LET c == getLatestCredentials(store)
    IN (StatusSent /\ store # <<>> /\ c.accessToken # Null) =>
          /\ Sent.credentials.present
          /\ Sent.credentials.isExpired =
                (/\ c.expiresIn.t = "str"
                 /\ ~ParseInt(c.expiresIn.s).nan
                 /\ now - c.tokenCreatedAt >= ParseInt(c.expiresIn.s).n * 1000)
          /\ (c.expiresIn.t = "str" /\ c.expiresIn.s = IntToString(Ttl)) =>
                /\ now - c.tokenCreatedAt = Ttl * 1000 - 1 => ~Sent.credentials.isExpired
                /\ now - c.tokenCreatedAt = Ttl * 1000 => Sent.credentials.isExpired

\* C6 witness: a status response at the very millisecond the token has
\* lived its expiresIn seconds, reported expired.
C6_Witness ==
    /\ StatusSent
    /\ store # <<>>
    /\ getLatestCredentials(store).expiresIn = StrV(IntToString(Ttl))
    /\ now - getLatestCredentials(store).tokenCreatedAt = Ttl * 1000
    /\ Sent.credentials.isExpired

\* a boolean as the JSON it serialises to
JsonBool(b) == IF b THEN "true" ELSE "false"

\* C7: in every status response built from a stored record, connected
\* equals (hasToken and not isExpired), and the token is non-null exactly
\* when connected is true.
C7_ConnectedIsHasTokenAndNotExpired ==
    (StatusSent /\ Sent.credentials.present) =>
        /\ Sent.connected = JsonBool(Sent.credentials.hasToken /\ ~Sent.credentials.isExpired)
        /\ (Sent.token.t = "object") <=> (Sent.connected = "true")

\* C8: for the empty store the status response has connected false and
\* neither a credentials nor a token member; for a latest record without
\* accessToken it has connected equal to the boolean false and token null.
C8_NoTokenMeansConnectedFalse ==
    StatusSent =>
        /\ store = <<>> =>
              /\ Sent.connected = "false"
              /\ ~Sent.credentials.present
              /\ Sent.token.t = "absent"
        /\ (store # <<>> /\ getLatestCredentials(store).accessToken = Null) =>
              /\ Sent.connected = "false"
              /\ Sent.token.t = "null"

\* C9: a validate request made when the store is empty or the latest
\* record has no accessToken is answered 400, once, and issues no probe.
C9_ValidateWithoutTokenIsRejected ==
    (/\ last.handler = "validate"
     /\ store = <<>> \/ getLatestCredentials(store).accessToken = Null)
    => /\ last.done
       /\ last.issued = 0
       /\ Len(last.responses) = 1
       /\ Sent.status = 400

\* C9 witness: a validate request rejected while the store holds records,
\* the latest of them without a token.
C9_Witness ==
    /\ ValidateSent
    /\ store # <<>>
    /\ getLatestCredentials(store).accessToken = Null
    /\ Sent.status = 400

\* the status the outcome of an authenticate request calls for
ExpectedStatus(body, outcome) ==
    IF ~SchemaAccepts(body) THEN 400
    ELSE IF outcome.t = "transport" \/ ~outcome.readable THEN 500
    ELSE IF outcome.status = 401 THEN 401
    ELSE IF outcome.status < 200 \/ outcome.status > 299 THEN outcome.status
    ELSE IF outcome.json.parsed /\ outcome.json.expires_in.t \in {"num", "str"} THEN 200
    ELSE 500

\* C10: every authenticate request that ends has sent exactly one
\* response: 400 for a malformed body, 401 with the fixed message for a
\* 401 of the issuer, the issuer's status for another non-2xx, 500 for a
\* transport failure or another error, 200 only for a successful
\* exchange; and a request that has not ended has sent none.
C10_OneResponsePerOutcome ==
    last.handler = "authenticate" =>
        IF last.done
        THEN /\ Len(last.responses) = 1
             /\ Sent.status = ExpectedStatus(last.body, last.outcome)
             /\ Sent.status = 401 =>
                   Sent.message = "Invalid client credentials. Please verify your Client ID and Client Secret."
             /\ Sent.status = 200 <=> Sent.saved # NoCredentials
             /\ Sent.status = 200 => Sent.saved \in Records
        ELSE /\ last.responses = <<>>
             /\ SchemaAccepts(last.body)

\* C10 witness: an authenticate request answered with the 503 of the
\* issuer, passed through.
C10_Witness ==
    /\ AuthenticateSent
    /\ last.outcome.t = "http" /\ last.outcome.status = 503
    /\ Sent.status = 503

\* C11: an authenticate request issues at most one call of the token
\* endpoint: none when the schema rejects its body, one on its way to its
\* await otherwise, and none once that call has settled, whatever the
\* outcome.
C11_AtMostOneExchangeCall ==
    last.handler = "authenticate" =>
        /\ last.issued <= 1
        /\ ~SchemaAccepts(last.body) => (last.done /\ last.issued = 0)
        /\ ~last.done => last.issued = 1
        /\ (last.done /\ SchemaAccepts(last.body)) => last.issued = 0

\* C11 witness: an authenticate request whose one call met a transport
\* failure has ended without another call.
C11_Witness ==
    /\ AuthenticateSent
    /\ last.outcome.t = "transport"
    /\ last.issued = 0
    /\ Sent.status = 500

\* C12: for a latest record that has a token, a validate request issues
\* exactly one probe and sends one response: for an upstream answer, 200
\* with valid true exactly when the upstream status is 2xx and with status
\* the upstream status; for a transport failure, 500 with neither a valid
\* nor a status member, which no answer to an upstream non-2xx is.
C12_ValidateReportsTheProbe ==
    (/\ last.handler = "validate"
     /\ store # <<>>
     /\ getLatestCredentials(store).accessToken # Null)
    => /\ last.done
       /\ last.issued = 1
       /\ Len(last.responses) = 1
       /\ last.outcome.t \in {"http", "transport"}
       /\ last.outcome.t = "http" =>
             /\ Sent.status = 200
             /\ Sent.valid = JsonBool(last.outcome.status >= 200 /\ last.outcome.status <= 299)
             /\ Sent.upstream = last.outcome.status
       /\ last.outcome.t = "transport" =>
             /\ Sent.status = 500
             /\ Sent.valid = Undefined
             /\ Sent.upstream = 0
             /\ Sent.message = "Error validating token"

\* C12 witness: a probe the upstream rejected with 401, answered with
\* valid false and status 401.
C12_Witness ==
    /\ ValidateSent
    /\ last.issued = 1
    /\ last.outcome.t = "http" /\ last.outcome.status = 401
    /\ Sent.valid = "false"
    /\ Sent.upstream = 401

\* C13: whatever the order in which the calls of concurrent authenticate
\* requests settle, each successful exchange ends exactly one handler in
\* flight, leaves the others in flight as they were, and appends one
\* record that holds the credentials and environment of that handler and
\* the token of the answer it was given; the store holds one record for
\* every successful exchange so far.
C13_ConcurrentExchangesKeepTheirOwn ==
    [][(/\ last'.handler = "authenticate"
        /\ last'.done
        /\ Len(last'.responses) = 1
        /\ last'.responses[1].status = 200)
       => /\ Len(store') = Len(store) + 1
          /\ SubSeq(store', 1, Len(store)) = store
          /\ Len(store') = nextId' - 1
          /\ \E c \in BagToSet(inflight) :
                LET r == store'[Len(store')]
                    json == last'.outcome.json
                IN /\ inflight' = inflight (-) SetToBag({c})
                   /\ r.clientId = c.clientId
                   /\ r.clientSecret = c.clientSecret
                   /\ r.environment = c.environment
                   /\ c.url = TokenUrl(r.environment)
                   /\ r.accessToken =
                         (IF json.access_token \in {"", Undefined} THEN Null
                          ELSE json.access_token)
                   /\ r.tokenType = json.token_type
                   /\ r.scope = json.scope
                   /\ json.expires_in.t = "num" =>
                         r.expiresIn = StrV(IntToString(json.expires_in.n))
      ]_vars

\* C13 witness: of two requests in flight at once, for different
\* environments, one has just stored its record while the other still
\* awaits the issuer.
C13_Witness ==
    /\ Exchanged
    /\ Len(store) = 1
    /\ \E c \in BagToSet(inflight) : c.environment # store[1].environment
    /\ store[1].environment = last.body.environment

\* the text p occurs in the text s
Contains(s, p) ==
    \E i \in 1..(Len(s) - Len(p) + 1) : SubSeq(s, i, i + Len(p) - 1) = p

\* the texts a response carries, in any of its members
ResponseTexts(resp) ==
    {resp.endpoint, resp.message, resp.success, resp.connected, resp.valid}
    \cup resp.errors
    \cup {resp.saved.clientId, resp.saved.clientSecret, resp.saved.environment,
          resp.saved.accessToken, resp.saved.tokenType, resp.saved.scope}
    \cup {resp.credentials.environment, resp.credentials.scope, resp.credentials.tokenType}
    \cup {resp.token.access_token, resp.token.token_type, resp.token.scope}

\* the response carries the text p
Carries(resp, p) == \E s \in ResponseTexts(resp) : Contains(s, p)

\* C14: no status response carries the clientSecret of a stored record,
\* and no response of an authenticate request that failed (400, 401, a
\* passed-through status, 500) carries the clientSecret submitted or the
\* text of the body the issuer returned.
C14_NoSecretInStatusOrErrors ==
    /\ StatusSent => \A r \in Records : ~Carries(Sent, r.clientSecret)
    /\ (AuthenticateSent /\ Sent.status # 200) =>
          /\ last.body.clientSecret \notin {Undefined, Null, ""} =>
                ~Carries(Sent, last.body.clientSecret)
          /\ ErrorText(last.outcome) # "" => ~Carries(Sent, ErrorText(last.outcome))

\* C14 witness: a status response with its full token payload, for a
\* store whose records hold a clientSecret.
C14_Witness ==
    /\ StatusSent
    /\ Sent.token.t = "object"
    /\ \E r \in Records : r.clientSecret = "xyz" /\ r.id = Sent.credentials.id

\* C15: every stored record has expiresIn absent or a string that
\* parseInt reads as a whole number of seconds that is not negative,
\* whatever 2xx body the issuer returned.
C15_ExpiresInIsNonNegativeSeconds ==
    \A r \in Records :
        \/ r.expiresIn.t = "null"
        \/ /\ r.expiresIn.t = "str"
           /\ ~ParseInt(r.expiresIn.s).nan
           /\ ParseInt(r.expiresIn.s).n >= 0

\* the position of the record inserted first among those of the greatest
\* createdAt
FirstOfGreatest ==
    CHOOSE i \in 1..Len(store) :
        /\ \A j \in 1..Len(store) : store[j].createdAt <= store[i].createdAt
        /\ \A j \in 1..(i - 1) : store[j].createdAt < store[i].createdAt

\* C16: when several records share the greatest createdAt,
\* getLatestCredentials returns the one among them that was inserted
\* first, so the record is fixed by the sequence of creates: every status
\* response made for the same store reports that same record.
C16_TieBrokenByInsertionOrder ==
    store # <<>> =>
        /\ getLatestCredentials(store) = store[FirstOfGreatest]
        /\ StatusSent => Sent.credentials.id = store[FirstOfGreatest].id

\* C16 witness: a status response for a store of two records of equal
\* createdAt, which reports the record inserted first.
C16_Witness ==
    /\ StatusSent
    /\ Len(store) >= 2
    /\ store[1].createdAt = store[2].createdAt
    /\ store[1].id # store[2].id
    /\ Sent.credentials.id = store[1].id

\* what a status request answered for the store m at the instant t: the
\* token of the latest record is expired, and connected is not true
ReportsExpired(m, t) ==
    /\ StatusHandler(m, t).credentials.isExpired
    /\ StatusHandler(m, t).connected # "true"

\* C17: the clock never goes back, and a status response is the one of
\* the store and the instant it is made at; from an instant at which a
\* status request reports the token of the latest record expired and
\* connected not true, every step that leaves the store as it is leads to
\* an instant at which it reports the same (a step that leaves the store
\* and the clock as they are reports the same), and connected is true again
\* only by a step in which an authenticate request stored a record and
\* answered 200.
C17_ExpiredStaysExpired ==
    /\ [](StatusSent => Sent = StatusHandler(store, now))
    /\ [][/\ now' >= now
          /\ (<<store, now>>' # <<store, now>> /\ ReportsExpired(store, now)) =>
                /\ store' = store => ReportsExpired(store', now')
                /\ StatusHandler(store', now').connected = "true" =>
                      /\ store' # store
                      /\ last'.handler = "authenticate"
                      /\ last'.done
                      /\ last'.responses[1].status = 200]_vars

\* C17 witness: a status response that reports the token expired and
\* connected false at an instant later than one at which the same latest
\* record was in the store and expired already.
C17_Witness ==
    /\ StatusSent
    /\ Sent.credentials.isExpired
    /\ Sent.connected = "false"
    /\ \E t \in ClockPoints :
          /\ t < now
          /\ getLatestCredentials(store).createdAt <= t
          /\ IsExpired(getLatestCredentials(store), t)

=============================================================================
